---- MODULE Spec2Model ----
(***************************************************************************)
(* Order lifecycle of the DeliverNow admin backend: the two competing     *)
(* implementations of routes/orders.js (the status-history variant and    *)
(* the Delivery-sync variant), the driver assignment route, and the       *)
(* Delivery model's save hook.  Requests are those that passed            *)
(* authMiddleware; each handler runs to completion (spec section 5).      *)
(***************************************************************************)
EXTENDS Integers, Sequences, FiniteSets, TLC

VARIABLES
    variant,     \* which of two competing route modules is mounted
    users,       \* User collection: _id -> userType
    orders,      \* Order collection: _id -> document
    deliveries,  \* Delivery collection, keyed by its unique `order` reference
    now,         \* wall clock in milliseconds (new Date(), Date.now())
    req,         \* the last request handled
    res,         \* HTTP status code of the last response (0: none yet)
    contacts,    \* User collection, unique-indexed fields: _id -> email, phone
    restaurants, \* Restaurant collection: _id -> document
    menuItems,   \* MenuItem collection: _id -> document
    inflight     \* handlers suspended at an await, with their local state

vars == <<variant, users, orders, deliveries, now, req, res,
          contacts, restaurants, menuItems, inflight>>

(* the collections the order routes never write *)
others == <<contacts, restaurants, menuItems, inflight>>

----------------------------------------------------------------------------
(* Bounds *)

MaxTicks == 1          \* the clock advances at most this many times
MaxHist == 2           \* statusHistory entries kept per order in the model

MsPerMinute == 60000   \* 1000 * 60 in deliverySchema.pre('save')
TickMs == MsPerMinute \div 2   \* one clock step: half a minute

OrderIds == {1, 2}     \* identifiers a request may name
SeedOrderIds == {1}    \* identifiers that may be stored; 2 matches no Order
UserIds == {1, 2, 3, 4}

----------------------------------------------------------------------------
(* Optional values: null is the empty sequence, a set value is <<v>> *)

Null == <<>>
Some(v) == <<v>>

(* orderSchema.status enum of the status-history schema *)
OrderStatusEnum ==
    {"pending", "confirmed", "assigned", "picked_up", "in_transit",
     "delivered", "cancelled"}

(* deliverySchema.status enum *)
DeliveryStatusEnum == {"assigned", "ongoing", "completed", "cancelled"}

(* faulty variant: an unknown status slips into the accepted list *)
validStatusesHistory_Extra ==
    {"pending", "confirmed", "assigned", "picked_up", "in_transit",
     "delivered", "cancelled", "shipped"}

(* validStatuses of the status-history variant *)
validStatusesHistory ==
    {"pending", "confirmed", "assigned", "picked_up", "in_transit",
     "delivered", "cancelled"}

(* faulty variant: an unknown status slips into the accepted list *)
validStatusesSync_Extra ==
    {"pending", "confirmed", "picked_up", "in_transit", "delivered",
     "cancelled", "shipped"}

(* validStatuses of the Delivery-sync variant *)
validStatusesSync ==
    {"pending", "confirmed", "picked_up", "in_transit", "delivered",
     "cancelled"}

(* req.body.status: "" stands for a missing (undefined) or empty status *)
NoStatus == ""

(* statuses sent to the Delivery-sync route: the whole vocabulary, an
   unknown word and a missing status *)
SyncStatusInputs == OrderStatusEnum \cup {"shipped", NoStatus}

(* statuses sent to the status-history route, which never branches on the
   value of an accepted status: the initial status, the one only this
   variant accepts, the two terminal ones, an unknown word and a missing
   status *)
HistoryStatusInputs ==
    {"pending", "assigned", "delivered", "cancelled", "shipped", NoStatus}

(* req.body.driverId: Null stands for a missing driverId *)
DriverInputs == {Null} \cup {Some(u) : u \in UserIds}

(* storage calls of the Delivery-sync status route that may reject *)
FailPoints == {"none", "orderWrite", "deliveryFind", "deliverySave"}

(* faulty variant: the quotient is truncated instead of rounded *)
MathRound_Truncate(n, d) == n \div d

(* Math.round(n / d) for integers n and d > 0: floor(n/d + 1/2) *)
MathRound(n, d) == (2 * n + d) \div (2 * d)

(* deliverySchema.pre('save') *)
DeliveryPreSave(d) ==
    LET d1 == [d EXCEPT !.updatedAt = now]
    IN  IF d1.startTime # Null /\ d1.endTime # Null
        THEN [d1 EXCEPT !.actualDuration =
                 Some(MathRound(d1.endTime[1] - d1.startTime[1], MsPerMinute))]
        ELSE d1

(* faulty variant: startTime is stamped on every pick-up, without the guard *)
SyncDelivery_Restamp(d, status) ==
    IF status = "delivered"
    THEN [d EXCEPT !.status = "completed", !.endTime = Some(now)]
    ELSE IF status \in {"picked_up", "in_transit"}
    THEN [d EXCEPT !.status = "ongoing", !.startTime = Some(now)]
    ELSE [d EXCEPT !.status = "assigned"]

(* faulty variant: statuses outside the two branches leave the Delivery status *)
SyncDelivery_KeepStatus(d, status) ==
    IF status = "delivered"
    THEN [d EXCEPT !.status = "completed", !.endTime = Some(now)]
    ELSE IF status \in {"picked_up", "in_transit"}
    THEN [d EXCEPT !.status = "ongoing",
                   !.startTime = IF d.startTime = Null THEN Some(now)
                                 ELSE d.startTime]
    ELSE d

(* faulty variant: a cancelled order cancels its Delivery *)
SyncDelivery_CancelMapped(d, status) ==
    IF status = "delivered"
    THEN [d EXCEPT !.status = "completed", !.endTime = Some(now)]
    ELSE IF status \in {"picked_up", "in_transit"}
    THEN [d EXCEPT !.status = "ongoing",
                   !.startTime = IF d.startTime = Null THEN Some(now)
                                 ELSE d.startTime]
    ELSE IF status = "cancelled"
    THEN [d EXCEPT !.status = "cancelled"]
    ELSE [d EXCEPT !.status = "assigned"]

(* the Delivery status table of the Delivery-sync variant *)
SyncDelivery(d, status) ==
    IF status = "delivered"
    THEN [d EXCEPT !.status = "completed", !.endTime = Some(now)]
    ELSE IF status \in {"picked_up", "in_transit"}
    THEN [d EXCEPT !.status = "ongoing",
                   !.startTime = IF d.startTime = Null THEN Some(now)
                                 ELSE d.startTime]
    ELSE [d EXCEPT !.status = "assigned"]

----------------------------------------------------------------------------
(* Documents as the schemas' defaults create them.  No route of the
   repository creates a Delivery: the stored ones were written by the
   driver-side client and are fresh (schema defaults). *)

NewOrder ==
    [status |-> "pending", deliveryStatus |-> "pending", driver |-> Null,
     statusHistory |-> <<>>, updatedAt |-> 0, customer |-> 1,
     restaurant |-> 1, items |-> <<>>, totalAmount |-> 0]

NewDelivery ==
    [status |-> "assigned", startTime |-> Null, endTime |-> Null,
     actualDuration |-> Null, updatedAt |-> 0, driver |-> 2]

NoRequest ==
    [route |-> "none", id |-> 0, status |-> NoStatus, driverId |-> Null,
     fail |-> "none"]

Request(route, id, status, driverId, fail) ==
    [route |-> route, id |-> id, status |-> status, driverId |-> driverId,
     fail |-> fail]

(* the seeded accounts' e-mail addresses (strings are sequences of
   characters) and phone numbers *)
SeedContacts ==
    [u \in {1, 2, 3} |->
        [email |-> <<(<<"a">>), (<<"b">>), (<<"c">>)>>[u],
         phone |-> <<"p1", "p2", "p3">>[u]]]

(* the seeded restaurant; it has no vendor account (vendor: required false) *)
SeedRestaurants == (1 :> [vendor |-> Null, isActive |-> TRUE])

Init ==
    /\ variant \in {"history", "sync"}
    /\ users = (1 :> "customer") @@ (2 :> "driver") @@ (3 :> "driver")
    /\ \E stored \in SUBSET SeedOrderIds :
         /\ orders = [o \in stored |-> NewOrder]
         /\ \E tracked \in SUBSET stored :
              deliveries = [o \in tracked |-> NewDelivery]
    /\ now = 0
    /\ req = NoRequest
    /\ res = 0
    /\ contacts = SeedContacts
    /\ restaurants = SeedRestaurants
    /\ menuItems = <<>>
    /\ inflight = {}

----------------------------------------------------------------------------
(* The clock advances between requests *)
Tick ==
    /\ now < MaxTicks * TickMs
    /\ now' = now + TickMs
    /\ UNCHANGED <<variant, users, orders, deliveries, req, res>>
    /\ UNCHANGED others

(* faulty variant: the Delivery-sync route lacks the null check on the Order *)
OrderFound_Unchecked(id) == variant = "sync" \/ id \in DOMAIN orders

(* `if (!order)` after Order.findByIdAndUpdate: the identifier matched *)
OrderFound(id) == id \in DOMAIN orders

(* faulty variant: the entry replaces the history ($set instead of $push) *)
PushStatusHistory_Replace(history, status) ==
    <<[status |-> status, timestamp |-> now]>>

(* faulty variant: the entry pushed always says pending *)
PushStatusHistory_Pending(history, status) ==
    Append(history, [status |-> "pending", timestamp |-> now])

(* $push of {status, timestamp} onto statusHistory *)
PushStatusHistory(history, status) ==
    Append(history, [status |-> status, timestamp |-> now])

(* PUT /api/orders/:id/status, status-history variant *)
UpdateStatusHistory(id, status) ==
    /\ variant = "history"
    /\ UNCHANGED <<variant, users, deliveries, now>>
    /\ UNCHANGED others
    /\ req' = Request("status", id, status, Null, "none")
    /\ IF status = NoStatus
       THEN res' = 400 /\ UNCHANGED orders
       ELSE IF status \notin validStatusesHistory
       THEN res' = 400 /\ UNCHANGED orders
       ELSE IF ~OrderFound(id)
       THEN res' = 404 /\ UNCHANGED orders
       ELSE /\ Len(orders[id].statusHistory) < MaxHist
            /\ orders' = [orders EXCEPT ![id] =
                 [@ EXCEPT !.status = status,
                           !.deliveryStatus = status,
                           !.updatedAt = now,
                           !.statusHistory = PushStatusHistory(@, status)]]
            /\ res' = 200

(* faulty variant: a failed Delivery save is swallowed and the request succeeds *)
DeliverySync_Swallow(id, status, fail) ==
    IF fail = "deliveryFind"
    THEN res' = 500 /\ UNCHANGED deliveries
    ELSE IF id \notin DOMAIN deliveries
    THEN fail = "none" /\ res' = 200 /\ UNCHANGED deliveries
    ELSE IF fail = "deliverySave"
    THEN res' = 200 /\ UNCHANGED deliveries
    ELSE /\ deliveries' = [deliveries EXCEPT ![id] =
               DeliveryPreSave(SyncDelivery(@, status))]
         /\ res' = 200

(* Delivery part of the Delivery-sync status route, and its response *)
DeliverySync(id, status, fail) ==
    IF fail = "deliveryFind"
    THEN res' = 500 /\ UNCHANGED deliveries
    ELSE IF id \notin DOMAIN deliveries
    THEN fail = "none" /\ res' = 200 /\ UNCHANGED deliveries
    ELSE IF fail = "deliverySave"
    THEN res' = 500 /\ UNCHANGED deliveries
    ELSE /\ deliveries' = [deliveries EXCEPT ![id] =
               DeliveryPreSave(SyncDelivery(@, status))]
         /\ res' = 200

(* PUT /api/orders/:id/status, Delivery-sync variant *)
UpdateStatusSync(id, status, fail) ==
    /\ variant = "sync"
    /\ UNCHANGED <<variant, users, now>>
    /\ UNCHANGED others
    /\ IF status \notin validStatusesSync
       THEN /\ fail = "none"
            /\ req' = Request("status", id, status, Null, "none")
            /\ res' = 400
            /\ UNCHANGED <<orders, deliveries>>
       ELSE IF fail = "orderWrite"
       THEN /\ req' = Request("status", id, status, Null, fail)
            /\ res' = 500
            /\ UNCHANGED <<orders, deliveries>>
       ELSE IF ~OrderFound(id)
       THEN /\ fail = "none"
            /\ req' = Request("status", id, status, Null, "none")
            /\ res' = 404
            /\ UNCHANGED <<orders, deliveries>>
       ELSE /\ orders' = [orders EXCEPT ![id] =
                 [@ EXCEPT !.status = status, !.updatedAt = now]]
            /\ req' = Request("status", id, status, Null, fail)
            /\ DeliverySync(id, status, fail)

(* faulty variant: the role of the Account is not checked *)
IsDriver_Any(u) == TRUE

(* `driver.userType !== 'driver'` of assign-driver *)
IsDriver(u) == users[u] = "driver"

(* faulty variant: an order that already has a driver keeps that driver *)
AssignDriver_KeepFirst(id, driverId) ==
    /\ variant = "history"
    /\ UNCHANGED <<variant, users, deliveries, now>>
    /\ UNCHANGED others
    /\ req' = Request("assign-driver", id, NoStatus, driverId, "none")
    /\ IF driverId = Null
       THEN res' = 400 /\ UNCHANGED orders
       ELSE IF driverId[1] \notin DOMAIN users
       THEN res' = 404 /\ UNCHANGED orders
       ELSE IF ~IsDriver(driverId[1])
       THEN res' = 400 /\ UNCHANGED orders
       ELSE IF ~OrderFound(id)
       THEN res' = 404 /\ UNCHANGED orders
       ELSE /\ orders' = [orders EXCEPT ![id] =
                 [@ EXCEPT !.driver = IF @ = Null THEN driverId ELSE @,
                           !.status = "assigned",
                           !.deliveryStatus = "assigned",
                           !.updatedAt = now]]
            /\ res' = 200

(* PUT /api/orders/:id/assign-driver (status-history variant's module) *)
AssignDriver(id, driverId) ==
    /\ variant = "history"
    /\ UNCHANGED <<variant, users, deliveries, now>>
    /\ UNCHANGED others
    /\ req' = Request("assign-driver", id, NoStatus, driverId, "none")
    /\ IF driverId = Null
       THEN res' = 400 /\ UNCHANGED orders
       ELSE IF driverId[1] \notin DOMAIN users
       THEN res' = 404 /\ UNCHANGED orders
       ELSE IF ~IsDriver(driverId[1])
       THEN res' = 400 /\ UNCHANGED orders
       ELSE IF ~OrderFound(id)
       THEN res' = 404 /\ UNCHANGED orders
       ELSE /\ orders' = [orders EXCEPT ![id] =
                 [@ EXCEPT !.driver = driverId,
                           !.status = "assigned",
                           !.deliveryStatus = "assigned",
                           !.updatedAt = now]]
            /\ res' = 200

Next ==
    \/ Tick
    \/ \E id \in OrderIds, status \in HistoryStatusInputs :
         UpdateStatusHistory(id, status)
    \/ \E id \in OrderIds, status \in SyncStatusInputs, fail \in FailPoints :
         UpdateStatusSync(id, status, fail)
    \/ \E id \in OrderIds, driverId \in DriverInputs :
         AssignDriver(id, driverId)

Spec == Init /\ [][Next]_vars

----------------------------------------------------------------------------
(* Vocabulary of the properties, stated independently of the handlers *)

(* the set of statuses a deployment's status route accepts *)
AcceptedSet(v) ==
    IF v = "history"
    THEN {"pending", "confirmed", "assigned", "picked_up", "in_transit",
          "delivered", "cancelled"}
    ELSE {"pending", "confirmed", "picked_up", "in_transit", "delivered",
          "cancelled"}

(* a step that handled a status-update request (the clock stands still) *)
StatusStep == now' = now /\ req'.route = "status"

(* a step that handled an assign-driver request *)
AssignStep == now' = now /\ req'.route = "assign-driver"

(* Order status -> Delivery status, as tabulated in section 4.1 *)
DeliveryStatusFor(status) ==
    CASE status = "delivered" -> "completed"
      [] status = "picked_up" -> "ongoing"
      [] status = "in_transit" -> "ongoing"
      [] OTHER -> "assigned"

(* C1: a status update whose target status is outside the route's accepted
   set, or missing, answers 400 and leaves every Order and every Delivery
   unchanged, whether or not the order identifier exists. *)
C1_InvalidStatusRejected ==
    [][(StatusStep /\ req'.status \notin AcceptedSet(variant))
         => (res' = 400 /\ orders' = orders /\ deliveries' = deliveries)]_vars

(* C1 witness: an invalid status was rejected for a stored order that has
   already been moved off its initial status and has a Delivery. *)
C1_Witness ==
    /\ req.route = "status"
    /\ req.status \notin AcceptedSet(variant)
    /\ res = 400
    /\ req.id \in DOMAIN orders
    /\ orders[req.id].status # "pending"
    /\ req.id \in DOMAIN deliveries

(* C2: after every successful status update the Order's status is the
   requested one; in the status-history variant exactly one entry carrying
   the requested status is appended at the end of statusHistory and all
   earlier entries stay, unchanged and in order. *)
C2_StatusStoredAndHistoryAppended ==
    [][(StatusStep /\ res' = 200)
         => /\ req'.id \in DOMAIN orders
            /\ req'.id \in DOMAIN orders'
            /\ orders'[req'.id].status = req'.status
            /\ variant = "history" =>
                 LET old == orders[req'.id].statusHistory
                     new == orders'[req'.id].statusHistory
                 IN  /\ Len(new) = Len(old) + 1
                     /\ SubSeq(new, 1, Len(old)) = old
                     /\ new[Len(new)].status = req'.status
                     /\ new[Len(new)].timestamp = now]_vars

(* C2 witness: a successful update appended a second entry behind an
   earlier one that carries a different status. *)
C2_Witness ==
    /\ variant = "history"
    /\ req.route = "status" /\ res = 200
    /\ req.id \in DOMAIN orders
    /\ Len(orders[req.id].statusHistory) = 2
    /\ orders[req.id].statusHistory[1].status # req.status
    /\ orders[req.id].statusHistory[2].status = req.status
    /\ orders[req.id].status = req.status

(* C3: after a successful status update of an order that has a Delivery,
   the Delivery's status is completed for delivered, ongoing for picked_up
   and in_transit, assigned for every other accepted status, whatever it
   was before. *)
C3_DeliveryStatusMapped ==
    (/\ variant = "sync"
     /\ req.route = "status" /\ res = 200
     /\ req.id \in DOMAIN deliveries)
    => deliveries[req.id].status = DeliveryStatusFor(req.status)

(* C3 witness: a Delivery that had been completed (its endTime is set) was
   mapped back to assigned by a cancellation of its order. *)
C3_Witness ==
    /\ variant = "sync"
    /\ req.route = "status" /\ req.status = "cancelled" /\ res = 200
    /\ req.id \in DOMAIN deliveries
    /\ deliveries[req.id].endTime # Null
    /\ deliveries[req.id].status = "assigned"

(* C4: a transition to delivered sets the Delivery's endTime to the current
   time only if it was unset; an endTime that is already set is kept. *)
C4_EndTimeSetOnlyIfUnset ==
    [][(/\ StatusStep /\ variant = "sync"
        /\ req'.status = "delivered" /\ res' = 200
        /\ req'.id \in DOMAIN deliveries)
         => LET old == deliveries[req'.id].endTime
                new == deliveries'[req'.id].endTime
            IN  IF old = Null THEN new = Some(now) ELSE new = old]_vars

(* C5: a startTime that is set is never changed or cleared by any step, and
   an unset startTime becomes set only by the status update to picked_up or
   in_transit of its own order, which in the Delivery-sync variant sets it
   to the current time. *)
C5_StartTimeSetOnce ==
    [][\A id \in DOMAIN deliveries :
         /\ id \in DOMAIN deliveries'
         /\ LET old == deliveries[id].startTime
                new == deliveries'[id].startTime
            IN  /\ old # Null => new = old
                /\ (old = Null /\ new # Null) =>
                     /\ StatusStep /\ req'.id = id
                     /\ req'.status \in {"picked_up", "in_transit"}
                     /\ new = Some(now)
                /\ (/\ old = Null /\ StatusStep /\ req'.id = id
                    /\ variant = "sync"
                    /\ req'.status \in {"picked_up", "in_transit"}
                    /\ res' = 200) => new = Some(now)]_vars

(* C5 witness: a Delivery picked up at time 0 went through delivered and
   was moved to picked_up or in_transit again later; startTime is still 0. *)
C5_Witness ==
    /\ variant = "sync"
    /\ req.route = "status" /\ res = 200
    /\ req.status \in {"picked_up", "in_transit"}
    /\ req.id \in DOMAIN deliveries
    /\ deliveries[req.id].startTime = Some(0)
    /\ deliveries[req.id].endTime # Null
    /\ deliveries[req.id].updatedAt > 0

(* Math.round of the quotient n / d: the integer k with
   k - 1/2 <= n/d < k + 1/2 *)
RoundedQuotient(n, d) ==
    CHOOSE k \in -100..100 : 2 * d * k - d <= 2 * n /\ 2 * n < 2 * d * k + d

(* C6: after a successful transition to delivered of an order with a
   Delivery, endTime is set, and when startTime is set the stored
   actualDuration is round((endTime - startTime) / 60000). *)
C6_DurationDerived ==
    (/\ variant = "sync"
     /\ req.route = "status" /\ req.status = "delivered" /\ res = 200
     /\ req.id \in DOMAIN deliveries)
    => LET d == deliveries[req.id]
       IN  /\ d.endTime # Null
           /\ d.startTime # Null =>
                d.actualDuration =
                    Some(RoundedQuotient(d.endTime[1] - d.startTime[1], 60000))

(* C6 witness: delivered half a minute after pick-up, so the quotient is
   exactly 0.5 and the stored duration is 1 minute. *)
C6_Witness ==
    /\ variant = "sync"
    /\ req.route = "status" /\ req.status = "delivered" /\ res = 200
    /\ req.id \in DOMAIN deliveries
    /\ deliveries[req.id].startTime # Null
    /\ deliveries[req.id].endTime # Null
    /\ deliveries[req.id].endTime[1] - deliveries[req.id].startTime[1] = 30000
    /\ deliveries[req.id].actualDuration = Some(1)

(* C7: when the Order write succeeded and the Delivery save then fails, the
   Order keeps the requested status, the stored Delivery is unchanged and
   the response is 500. *)
C7_NoRollbackOnDeliveryFailure ==
    [][(StatusStep /\ variant = "sync" /\ req'.fail = "deliverySave")
         => /\ res' = 500
            /\ req'.id \in DOMAIN orders'
            /\ orders'[req'.id].status = req'.status
            /\ deliveries' = deliveries]_vars

(* C7 witness: the Order is delivered while its Delivery, whose save
   failed, is still assigned. *)
C7_Witness ==
    /\ variant = "sync"
    /\ req.route = "status" /\ req.fail = "deliverySave" /\ res = 500
    /\ req.status = "delivered"
    /\ orders[req.id].status = "delivered"
    /\ deliveries[req.id].status = "assigned"
    /\ deliveries[req.id].endTime = Null

(* C8: a status update with an accepted status whose identifier matches no
   stored Order answers 404 and creates or modifies no Order, no Delivery. *)
C8_MissingOrderNotFound ==
    [][(/\ StatusStep /\ req'.fail = "none"
        /\ req'.status \in AcceptedSet(variant)
        /\ req'.id \notin DOMAIN orders)
         => (res' = 404 /\ orders' = orders /\ deliveries' = deliveries)]_vars

(* C8 witness: 404 for an accepted status while another Order is stored. *)
C8_Witness ==
    /\ req.route = "status" /\ res = 404
    /\ req.status \in AcceptedSet(variant)
    /\ req.id \notin DOMAIN orders
    /\ DOMAIN orders # {}

(* position of a status in the sequence of section 3 *)
StatusRank(status) ==
    CASE status = "pending" -> 1
      [] status = "confirmed" -> 2
      [] status = "assigned" -> 3
      [] status = "picked_up" -> 4
      [] status = "in_transit" -> 5
      [] status = "delivered" -> 6
      [] OTHER -> 7

(* C9 as stated: an order that reached delivered or cancelled never holds
   another status later, and no request moves an order to an earlier status
   of the sequence. *)
C9_StatusMonotone ==
    [][\A id \in DOMAIN orders \cap DOMAIN orders' :
         LET old == orders[id].status
             new == orders'[id].status
         IN  /\ old \in {"delivered", "cancelled"} => new = old
             /\ StatusRank(new) >= StatusRank(old)]_vars

(* C9 amended: an Order's status is always one of the seven values; it
   changes only by a status-update or assign-driver request naming that
   order, and then becomes the requested status (assigned for
   assign-driver) whatever the previous status was. *)
C9_StatusUnordered ==
    [][\A id \in DOMAIN orders' :
         /\ orders'[id].status \in
              {"pending", "confirmed", "assigned", "picked_up", "in_transit",
               "delivered", "cancelled"}
         /\ (id \in DOMAIN orders /\ orders'[id].status # orders[id].status)
              => /\ now' = now /\ req'.id = id
                 /\ req'.route \in {"status", "assign-driver"}
                 /\ orders'[id].status =
                      IF req'.route = "status" THEN req'.status
                      ELSE "assigned"]_vars

(* C9 witness: an order that was delivered has been moved back to pending. *)
C9_Witness ==
    /\ variant = "history"
    /\ req.route = "status" /\ req.status = "pending" /\ res = 200
    /\ Len(orders[req.id].statusHistory) = 2
    /\ orders[req.id].statusHistory[1].status = "delivered"
    /\ orders[req.id].status = "pending"

(* C10: assign-driver is rejected and changes no Order when the driver
   identifier is missing (400), resolves to no Account (404) or to an
   Account that is not a driver (400); with a valid driver and an order
   identifier that matches no Order it answers 404, again without change. *)
C10_AssignDriverRejected ==
    [][AssignStep =>
         LET d == req'.driverId
         IN  /\ d = Null => (res' = 400 /\ orders' = orders)
             /\ (d # Null /\ d[1] \notin DOMAIN users)
                  => (res' = 404 /\ orders' = orders)
             /\ (d # Null /\ d[1] \in DOMAIN users /\ users[d[1]] # "driver")
                  => (res' = 400 /\ orders' = orders)
             /\ (/\ d # Null /\ d[1] \in DOMAIN users
                 /\ users[d[1]] = "driver" /\ req'.id \notin DOMAIN orders)
                  => (res' = 404 /\ orders' = orders)]_vars

(* C10 witness: a customer Account was refused as driver of an order that
   keeps the driver assigned to it before. *)
C10_Witness ==
    /\ req.route = "assign-driver" /\ res = 400
    /\ req.driverId # Null
    /\ req.driverId[1] \in DOMAIN users
    /\ users[req.driverId[1]] = "customer"
    /\ req.id \in DOMAIN orders
    /\ orders[req.id].driver # Null
    /\ orders[req.id].status = "assigned"

(* C11: after a successful assign-driver request the order's driver is the
   requested driver and its status is assigned, whatever driver and status
   the order had before; assigning a different driver overwrites the first. *)
C11_AssignOverwrites ==
    [][(AssignStep /\ res' = 200) =>
          /\ req'.id \in DOMAIN orders
          /\ orders'[req'.id].driver = req'.driverId
          /\ req'.driverId # Null
          /\ orders'[req'.id].status = "assigned"
          /\ \A u \in UserIds :
                (orders[req'.id].driver = Some(u) /\ req'.driverId # Some(u))
                   => orders'[req'.id].driver # Some(u)]_vars

(* driver 3 has just been assigned to an order that had been delivered *)
C11_Witness ==
    /\ req.route = "assign-driver" /\ res = 200
    /\ req.driverId = Some(3)
    /\ orders[req.id].driver = Some(3)
    /\ orders[req.id].status = "assigned"
    /\ orders[req.id].statusHistory # <<>>
    /\ orders[req.id].statusHistory[1].status = "delivered"

----------------------------------------------------------------------------
(* Deletion of accounts and restaurants: DELETE /api/customers/:id,
   DELETE /api/drivers/:id and DELETE /api/restaurants/:id.  The stored
   orders and deliveries are in the states the order routes and the
   driver-side client leave them in. *)

RestaurantIds == {1, 2}

(* order statuses the deletion scenarios start from: one the customer route
   alone counts, one neither route counts, one both count, one terminal *)
SeedOrderStatuses == {"pending", "assigned", "in_transit", "delivered"}

(* faulty variant: delivered orders also block the deletion of a customer *)
CustomerActiveOrderStatuses_Delivered ==
    {"pending", "confirmed", "picked_up", "in_transit", "delivered"}

(* status: { $in: [...] } of the customer route's Order.countDocuments *)
CustomerActiveOrderStatuses ==
    {"pending", "confirmed", "picked_up", "in_transit"}

(* status: { $in: [...] } of the driver route's Order.countDocuments *)
DriverActiveOrderStatuses == {"confirmed", "picked_up", "in_transit"}

(* status: { $in: [...] } of the driver route's Delivery.countDocuments *)
DriverActiveDeliveryStatuses == {"assigned", "ongoing"}

(* User.findByIdAndDelete *)
RemoveUser(id) ==
    /\ users' = [u \in DOMAIN users \ {id} |-> users[u]]
    /\ contacts' = [u \in DOMAIN contacts \ {id} |-> contacts[u]]

(* DELETE /api/customers/:id *)
DeleteCustomer(id) ==
    /\ UNCHANGED <<variant, orders, deliveries, now, restaurants, menuItems,
                   inflight>>
    /\ req' = Request("delete-customer", id, NoStatus, Null, "none")
    /\ IF id \notin DOMAIN users \/ users[id] # "customer"
       THEN res' = 404 /\ UNCHANGED <<users, contacts>>
       ELSE IF \E o \in DOMAIN orders :
                 /\ orders[o].customer = id
                 /\ orders[o].status \in CustomerActiveOrderStatuses
       THEN res' = 400 /\ UNCHANGED <<users, contacts>>
       ELSE res' = 200 /\ RemoveUser(id)

(* DELETE /api/drivers/:id *)
DeleteDriver(id) ==
    /\ UNCHANGED <<variant, orders, deliveries, now, restaurants, menuItems,
                   inflight>>
    /\ req' = Request("delete-driver", id, NoStatus, Null, "none")
    /\ IF id \notin DOMAIN users \/ users[id] # "driver"
       THEN res' = 404 /\ UNCHANGED <<users, contacts>>
       ELSE IF \/ \E o \in DOMAIN deliveries :
                    /\ deliveries[o].driver = id
                    /\ deliveries[o].status \in DriverActiveDeliveryStatuses
               \/ \E o \in DOMAIN orders :
                    /\ orders[o].driver = Some(id)
                    /\ orders[o].status \in DriverActiveOrderStatuses
       THEN res' = 400 /\ UNCHANGED <<users, contacts>>
       ELSE res' = 200 /\ RemoveUser(id)

(* DELETE /api/restaurants/:id, the same in both restaurant route modules *)
DeleteRestaurant(id) ==
    /\ UNCHANGED <<variant, users, contacts, orders, deliveries, now,
                   menuItems, inflight>>
    /\ req' = Request("delete-restaurant", id, NoStatus, Null, "none")
    /\ IF id \notin DOMAIN restaurants
       THEN res' = 404 /\ UNCHANGED restaurants
       ELSE /\ restaurants' =
                 [r \in DOMAIN restaurants \ {id} |-> restaurants[r]]
            /\ res' = 200

InitDelete ==
    /\ variant = "history"
    /\ users = (1 :> "customer") @@ (2 :> "driver") @@ (3 :> "driver")
    /\ contacts = SeedContacts
    /\ \E stored \in SUBSET OrderIds :
         /\ orders \in [stored -> {[NewOrder EXCEPT !.status = st,
                                                   !.deliveryStatus = st,
                                                   !.driver = dr] :
                                       st \in SeedOrderStatuses,
                                       dr \in {Null, Some(2), Some(3)}}]
         /\ 2 \in stored => orders[2].driver = Null
         /\ \E tracked \in SUBSET (stored \cap SeedOrderIds) :
              deliveries \in [tracked -> {[NewDelivery EXCEPT !.status = st,
                                                             !.driver = dr] :
                                             st \in DeliveryStatusEnum,
                                             dr \in {2, 3}}]
    /\ now = 0
    /\ req = NoRequest
    /\ res = 0
    /\ restaurants = SeedRestaurants
    /\ menuItems = <<>>
    /\ inflight = {}

NextDelete ==
    \/ \E id \in UserIds : DeleteCustomer(id)
    \/ \E id \in UserIds : DeleteDriver(id)
    \/ \E id \in RestaurantIds : DeleteRestaurant(id)

SpecDelete == InitDelete /\ [][NextDelete]_vars

----------------------------------------------------------------------------
(* Vocabulary of the deletion properties *)

(* an order or delivery that is not finished *)
NonTerminalOrderStatuses == OrderStatusEnum \ {"delivered", "cancelled"}
NonTerminalDeliveryStatuses == {"assigned", "ongoing"}

(* some unfinished order or delivery references account a *)
HasActiveReference(a) ==
    \/ \E o \in DOMAIN orders :
         /\ orders[o].customer = a \/ orders[o].driver = Some(a)
         /\ orders[o].status \in NonTerminalOrderStatuses
    \/ \E o \in DOMAIN deliveries :
         /\ deliveries[o].driver = a
         /\ deliveries[o].status \in NonTerminalDeliveryStatuses

(* a step that handled an account deletion through the route of its role *)
DeleteAccountStep ==
    /\ req'.id \in DOMAIN users
    /\ \/ req'.route = "delete-customer" /\ users[req'.id] = "customer"
       \/ req'.route = "delete-driver" /\ users[req'.id] = "driver"

(* C12: deleting a customer or driver is rejected with a client error, and
   the account stays stored, whenever an order referencing it is neither
   delivered nor cancelled or a delivery referencing it is assigned or
   ongoing. *)
C12_ActiveAccountNotDeleted ==
    [][(DeleteAccountStep /\ HasActiveReference(req'.id)) =>
          /\ res' \in 400..499
          /\ req'.id \in DOMAIN users']_vars

(* C13: deleting a restaurant is rejected, and the restaurant stays stored,
   whenever an order referencing it is neither delivered nor cancelled. *)
C13_ActiveRestaurantNotDeleted ==
    [][(/\ req'.route = "delete-restaurant"
        /\ req'.id \in DOMAIN restaurants
        /\ \E o \in DOMAIN orders :
              /\ orders[o].restaurant = req'.id
              /\ orders[o].status \in NonTerminalOrderStatuses) =>
          /\ res' # 200
          /\ req'.id \in DOMAIN restaurants']_vars

(* C14: deleting an existing customer or driver that no unfinished order or
   delivery references succeeds: the account is removed, the response is a
   success, and no order or delivery changes. *)
C14_IdleAccountDeleted ==
    [][(DeleteAccountStep /\ ~HasActiveReference(req'.id)) =>
          /\ res' = 200
          /\ req'.id \notin DOMAIN users'
          /\ \A u \in DOMAIN users \ {req'.id} :
                u \in DOMAIN users' /\ users'[u] = users[u]
          /\ orders' = orders
          /\ deliveries' = deliveries]_vars

(* the customer was deleted while a delivered order still references it *)
C14_Witness ==
    /\ req.route = "delete-customer" /\ res = 200
    /\ req.id \notin DOMAIN users
    /\ \E o \in DOMAIN orders :
         orders[o].customer = req.id /\ orders[o].status = "delivered"
    /\ \A o \in DOMAIN orders : orders[o].status = "delivered"

----------------------------------------------------------------------------
(* Accounts and restaurants: POST and PUT of /api/customers and
   /api/drivers, and POST /api/restaurants in its two competing modules
   (routes/restaurants.js and the optionalAuth one).  An e-mail address is
   a sequence of characters; the empty sequence is the absent (falsy) one.
   Account creation is suspended at the await between its look-ups and its
   save, so that other requests interleave with it. *)

MaxInflight == 1       \* account creations suspended at the same time
MaxRestaurants == 1    \* restaurants stored in the model

EmailInputs == {Null, <<"a">>, <<"A">>, <<"b">>}
NoPhone == ""
PhoneInputs == {NoPhone, "p1", "p2"}

(* vendorPhone || '+27000000000' of the optionalAuth module *)
DefaultVendorPhone == "+27000000000"

(* String.prototype.toLowerCase on one character *)
LowerChar(c) ==
    CASE c = "A" -> "a"
      [] c = "B" -> "b"
      [] OTHER -> c

(* email.toLowerCase(), and the schema's `lowercase: true` setter *)
ToLowerCase(e) == [i \in DOMAIN e |-> LowerChar(e[i])]

(* the last request: its route and, for POST /api/restaurants, the vendor
   e-mail address and phone number sent *)
AccountRequest(route, id, email, phone) ==
    [route |-> route, id |-> id, email |-> email, phone |-> phone]

(* User.findOne({ email }): the filter is cast through the schema setter *)
EmailOnFile(email) ==
    {u \in DOMAIN contacts : contacts[u].email = ToLowerCase(email)}

(* User.findOne({ phone }) *)
PhoneOnFile(phone) == {u \in DOMAIN contacts : contacts[u].phone = phone}

(* faulty variant: the collection has no unique index *)
DuplicateKey_NoIndex(id, email, phone) == FALSE

(* the unique indexes on email and phone reject a write that would give
   account id an address or number another account holds *)
DuplicateKey(id, email, phone) ==
    \E u \in DOMAIN contacts \ {id} :
        contacts[u].email = email \/ contacts[u].phone = phone

(* _id of the next inserted account: identifiers are never reused *)
NextUserId == Cardinality(DOMAIN users) + 1

(* new User({...}).save(): the insert, or the duplicate-key failure *)
InsertUser(role, email, phone) ==
    /\ users' = users @@ (NextUserId :> role)
    /\ contacts' = contacts @@
         (NextUserId :> [email |-> ToLowerCase(email), phone |-> phone])

(* POST /api/customers and POST /api/drivers up to the save: the required
   fields and the two User.findOne look-ups *)
CreateAccountCheck(role, email, phone) ==
    /\ UNCHANGED <<variant, users, contacts, orders, deliveries, now,
                   restaurants, menuItems>>
    /\ req' = AccountRequest("create", 0, Null, NoPhone)
    /\ IF email = Null \/ phone = NoPhone
       THEN res' = 400 /\ UNCHANGED inflight
       ELSE IF EmailOnFile(email) # {}
       THEN res' = 400 /\ UNCHANGED inflight
       ELSE IF PhoneOnFile(phone) # {}
       THEN res' = 400 /\ UNCHANGED inflight
       ELSE /\ Cardinality(inflight) < MaxInflight
            /\ inflight' = inflight \cup
                 {[role |-> role, email |-> email, phone |-> phone]}
            /\ res' = 0

(* the rest of the same handlers: await user.save() and the response *)
CreateAccountSave(p) ==
    /\ p \in inflight
    /\ inflight' = inflight \ {p}
    /\ UNCHANGED <<variant, orders, deliveries, now, restaurants, menuItems>>
    /\ req' = AccountRequest("create", 0, Null, NoPhone)
    /\ IF DuplicateKey(0, ToLowerCase(p.email), p.phone)
       THEN res' = 500 /\ UNCHANGED <<users, contacts>>
       ELSE res' = 201 /\ InsertUser(p.role, p.email, p.phone)

(* PUT /api/customers/:id and PUT /api/drivers/:id: the fields given are
   assigned without a look-up, and the save meets the unique indexes *)
UpdateAccount(role, id, email, phone) ==
    /\ UNCHANGED <<variant, users, orders, deliveries, now, restaurants,
                   menuItems, inflight>>
    /\ req' = AccountRequest("update", id, Null, NoPhone)
    /\ IF id \notin DOMAIN users \/ users[id] # role
       THEN res' = 404 /\ UNCHANGED contacts
       ELSE LET e == IF email # Null THEN ToLowerCase(email)
                     ELSE contacts[id].email
                ph == IF phone # NoPhone THEN phone ELSE contacts[id].phone
            IN  IF DuplicateKey(id, e, ph)
                THEN res' = 500 /\ UNCHANGED contacts
                ELSE /\ contacts' = [contacts EXCEPT ![id] =
                                       [email |-> e, phone |-> ph]]
                     /\ res' = 200

(* vendor look-up, implicit vendor creation and Restaurant insert shared by
   the two POST /api/restaurants handlers; phone is the number the vendor
   account gets *)
CreateRestaurantWith(vendorEmail, phone) ==
    IF EmailOnFile(vendorEmail) # {}
    THEN /\ Cardinality(DOMAIN restaurants) < MaxRestaurants
         /\ restaurants' = restaurants @@
              (Cardinality(DOMAIN restaurants) + 1 :>
                  [vendor |-> Some(CHOOSE u \in EmailOnFile(vendorEmail) : TRUE),
                   isActive |-> TRUE])
         /\ res' = 201
         /\ UNCHANGED <<users, contacts>>
    ELSE IF DuplicateKey(0, ToLowerCase(vendorEmail), phone)
    THEN res' = 500 /\ UNCHANGED <<users, contacts, restaurants>>
    ELSE /\ Cardinality(DOMAIN restaurants) < MaxRestaurants
         /\ InsertUser("vendor", vendorEmail, phone)
         /\ restaurants' = restaurants @@
              (Cardinality(DOMAIN restaurants) + 1 :>
                  [vendor |-> Some(NextUserId), isActive |-> TRUE])
         /\ res' = 201

(* POST /api/restaurants of routes/restaurants.js *)
CreateRestaurant(vendorEmail, phone) ==
    /\ variant = "restaurants"
    /\ UNCHANGED <<variant, orders, deliveries, now, menuItems, inflight>>
    /\ req' = AccountRequest("create-restaurant", 0, vendorEmail, phone)
    /\ IF vendorEmail = Null \/ phone = NoPhone
       THEN res' = 400 /\ UNCHANGED <<users, contacts, restaurants>>
       ELSE CreateRestaurantWith(vendorEmail, phone)

(* POST /api/restaurants of the optionalAuth module *)
CreateRestaurantOptionalAuth(vendorEmail, vendorPhone) ==
    /\ variant = "optionalAuth"
    /\ UNCHANGED <<variant, orders, deliveries, now, menuItems, inflight>>
    /\ req' = AccountRequest("create-restaurant", 0, vendorEmail, vendorPhone)
    /\ IF vendorEmail = Null
       THEN res' = 400 /\ UNCHANGED <<users, contacts, restaurants>>
       ELSE CreateRestaurantWith(vendorEmail,
               IF vendorPhone # NoPhone THEN vendorPhone
               ELSE DefaultVendorPhone)

InitAccounts ==
    /\ variant \in {"restaurants", "optionalAuth"}
    /\ users = <<>>
    /\ contacts = <<>>
    /\ orders = <<>>
    /\ deliveries = <<>>
    /\ now = 0
    /\ req = AccountRequest("none", 0, Null, NoPhone)
    /\ res = 0
    /\ restaurants = <<>>
    /\ menuItems = <<>>
    /\ inflight = {}

NextAccounts ==
    \/ \E role \in {"customer", "driver"}, email \in EmailInputs,
          phone \in PhoneInputs : CreateAccountCheck(role, email, phone)
    \/ \E p \in inflight : CreateAccountSave(p)
    \/ \E role \in {"customer", "driver"}, id \in UserIds,
          email \in EmailInputs, phone \in PhoneInputs :
            UpdateAccount(role, id, email, phone)
    \/ \E vendorEmail \in EmailInputs, phone \in PhoneInputs :
          CreateRestaurant(vendorEmail, phone)
    \/ \E vendorEmail \in EmailInputs, vendorPhone \in PhoneInputs :
          CreateRestaurantOptionalAuth(vendorEmail, vendorPhone)

SpecAccounts == InitAccounts /\ [][NextAccounts]_vars

----------------------------------------------------------------------------
(* Properties of accounts and restaurants *)

(* C15: in every reachable state, whatever creations, updates and restaurant
   creations were handled and however they interleaved, no two stored
   accounts have the same e-mail address (compared without regard to case)
   and no two have the same phone number. *)
C15_EmailAndPhoneUnique ==
    \A u, v \in DOMAIN contacts :
        u # v =>
          /\ ToLowerCase(contacts[u].email) # ToLowerCase(contacts[v].email)
          /\ contacts[u].phone # contacts[v].phone

(* two accounts are stored and an update that would have given one of them
   the other's address or number has just been refused by the index *)
C15_Witness ==
    /\ Cardinality(DOMAIN contacts) = 2
    /\ req.route = "update" /\ res = 500

(* C16: a restaurant creation with the required fields and a vendor e-mail
   address that no stored account has creates an account with that address
   and role vendor, and the new restaurant's vendor is that account --
   whatever accounts and restaurants are stored. *)
C16_VendorCreated ==
    [][(/\ req'.route = "create-restaurant"
        /\ req'.email # Null
        /\ variant = "restaurants" => req'.phone # NoPhone
        /\ \A u \in DOMAIN contacts :
              contacts[u].email # ToLowerCase(req'.email)) =>
          \E a \in DOMAIN users' \ DOMAIN users :
              /\ users'[a] = "vendor"
              /\ contacts'[a].email = ToLowerCase(req'.email)
              /\ \E r \in DOMAIN restaurants' \ DOMAIN restaurants :
                    restaurants'[r].vendor = Some(a)]_vars

(* C17: the vendor of every restaurant created through POST /api/restaurants
   is a stored account whose role is vendor, never a customer, driver or
   admin. *)
C17_VendorHasVendorRole ==
    \A r \in DOMAIN restaurants :
        /\ restaurants[r].vendor # Null
        /\ restaurants[r].vendor[1] \in DOMAIN users
        /\ users[restaurants[r].vendor[1]] = "vendor"

----------------------------------------------------------------------------
(* Menu items: PATCH /api/menu/:id/toggle-availability, PUT /api/menu/:id,
   the model method updateStock and the schema's save hook.  req.before is
   the document the handler loaded; res is 200 when the save (or the method)
   succeeded, 404 for an unknown item, 500 when validation rejected the
   save. *)

MaxStock == 2          \* largest currentStock in the model

MenuItemIds == {1, 2}
StockQuantities == -1 .. MaxStock
StockOperations == {"subtract", "add", "set", "other"}

(* Math.max(0, n) *)
MathMax0(n) == IF n > 0 THEN n ELSE 0

(* faulty variant: the hook restores availability when stock is back *)
MenuItemPreSave_Reenable(m) ==
    IF m.trackStock
    THEN IF m.currentStock = 0
         THEN [m EXCEPT !.isOutOfStock = TRUE, !.isAvailable = FALSE]
         ELSE [m EXCEPT !.isOutOfStock = FALSE, !.isAvailable = TRUE]
    ELSE m

(* faulty variant: the hook flags out-of-stock items but leaves them on sale *)
MenuItemPreSave_NoCascade(m) ==
    IF m.trackStock
    THEN IF m.currentStock = 0
         THEN [m EXCEPT !.isOutOfStock = TRUE]
         ELSE [m EXCEPT !.isOutOfStock = FALSE]
    ELSE m

(* menuItemSchema.pre('save') *)
MenuItemPreSave(m) ==
    IF m.trackStock
    THEN IF m.currentStock = 0
         THEN [m EXCEPT !.isOutOfStock = TRUE, !.isAvailable = FALSE]
         ELSE [m EXCEPT !.isOutOfStock = FALSE]
    ELSE m

(* the assignments of updateStock before its save *)
StockUpdated(m, quantity, operation) ==
    LET stock == CASE operation = "subtract" ->
                        MathMax0(m.currentStock - quantity)
                   [] operation = "add" -> m.currentStock + quantity
                   [] operation = "set" -> MathMax0(quantity)
                   [] OTHER -> m.currentStock
    IN  [m EXCEPT !.currentStock = stock,
                  !.isOutOfStock = (stock = 0),
                  !.isAvailable = IF stock = 0 THEN FALSE ELSE @]

(* the documents as first saved: POST /api/menu stores isAvailable: true,
   stock tracking is off (schema default) or switched on with some stock *)
SavedMenuItems ==
    {MenuItemPreSave([isAvailable |-> TRUE, trackStock |-> t,
                      currentStock |-> IF t THEN n ELSE 0,
                      isOutOfStock |-> FALSE]) :
        t \in BOOLEAN, n \in 0 .. MaxStock}

MenuRequest(route, id, quantity, operation, before) ==
    [route |-> route, id |-> id, quantity |-> quantity,
     operation |-> operation, before |-> before]

(* faulty variant: the route switches the item on instead of flipping it *)
Toggled_Enable(m) == [m EXCEPT !.isAvailable = TRUE]

(* menuItem.isAvailable = !menuItem.isAvailable *)
Toggled(m) == [m EXCEPT !.isAvailable = ~@]

(* PATCH /api/menu/:id/toggle-availability *)
ToggleAvailability(id) ==
    /\ UNCHANGED <<variant, users, contacts, orders, deliveries, now,
                   restaurants, inflight>>
    /\ IF id \notin DOMAIN menuItems
       THEN /\ req' = MenuRequest("toggle", id, 0, "none", Null)
            /\ res' = 404
            /\ UNCHANGED menuItems
       ELSE /\ req' = MenuRequest("toggle", id, 0, "none", Some(menuItems[id]))
            /\ menuItems' = [menuItems EXCEPT ![id] =
                 MenuItemPreSave(Toggled(@))]
            /\ res' = 200

(* PUT /api/menu/:id: descriptive fields only, then the save *)
UpdateMenuItem(id) ==
    /\ UNCHANGED <<variant, users, contacts, orders, deliveries, now,
                   restaurants, inflight>>
    /\ IF id \notin DOMAIN menuItems
       THEN /\ req' = MenuRequest("update", id, 0, "none", Null)
            /\ res' = 404
            /\ UNCHANGED menuItems
       ELSE /\ req' = MenuRequest("update", id, 0, "none", Some(menuItems[id]))
            /\ menuItems' = [menuItems EXCEPT ![id] = MenuItemPreSave(@)]
            /\ res' = 200

(* menuItem.updateStock(quantity, operation) on a stored item *)
UpdateStock(id, quantity, operation) ==
    /\ id \in DOMAIN menuItems
    /\ UNCHANGED <<variant, users, contacts, orders, deliveries, now,
                   restaurants, inflight>>
    /\ req' = MenuRequest("updateStock", id, quantity, operation,
                          Some(menuItems[id]))
    /\ IF ~menuItems[id].trackStock
       THEN res' = 200 /\ UNCHANGED menuItems
       ELSE LET m == StockUpdated(menuItems[id], quantity, operation)
            IN  IF m.currentStock < 0
                THEN res' = 500 /\ UNCHANGED menuItems
                ELSE /\ m.currentStock <= MaxStock
                     /\ menuItems' = [menuItems EXCEPT ![id] =
                                        MenuItemPreSave(m)]
                     /\ res' = 200

InitMenu ==
    /\ variant = "history"
    /\ users = <<>>
    /\ contacts = <<>>
    /\ orders = <<>>
    /\ deliveries = <<>>
    /\ now = 0
    /\ req = MenuRequest("none", 0, 0, "none", Null)
    /\ res = 0
    /\ restaurants = SeedRestaurants
    /\ \E stored \in SUBSET MenuItemIds : menuItems \in [stored -> SavedMenuItems]
    /\ inflight = {}

NextMenu ==
    \/ \E id \in MenuItemIds : ToggleAvailability(id)
    \/ \E id \in MenuItemIds : UpdateMenuItem(id)
    \/ \E id \in MenuItemIds, quantity \in StockQuantities,
          operation \in StockOperations : UpdateStock(id, quantity, operation)

SpecMenu == InitMenu /\ [][NextMenu]_vars

----------------------------------------------------------------------------
(* Properties of menu items *)

(* the last request saved item req.id, which tracks its stock *)
TrackedItemSaved ==
    /\ req.route \in {"toggle", "update", "updateStock"}
    /\ res = 200
    /\ menuItems[req.id].trackStock

(* C18: after every successful save of a stock-tracked menu item, through
   toggle-availability, update or updateStock with any operation,
   isOutOfStock is true exactly when currentStock is 0, and currentStock = 0
   implies isAvailable = false. *)
C18_StockFlagsConsistent ==
    TrackedItemSaved =>
        /\ menuItems[req.id].isOutOfStock <=> menuItems[req.id].currentStock = 0
        /\ menuItems[req.id].currentStock = 0 => ~menuItems[req.id].isAvailable

(* an available item has just been sold out by updateStock *)
C18_Witness ==
    /\ TrackedItemSaved
    /\ req.route = "updateStock" /\ req.operation = "subtract"
    /\ req.before[1].isAvailable /\ req.before[1].currentStock > 0
    /\ menuItems[req.id].currentStock = 0
    /\ menuItems[req.id].isOutOfStock
    /\ ~menuItems[req.id].isAvailable

(* C19: the cascade is one-way: when updateStock raises the stock of a
   tracked item that was out of stock (and so forced unavailable) above 0,
   isOutOfStock becomes false and isAvailable stays false; isAvailable
   turns from false to true only in a toggle-availability request. *)
C19_RestockKeepsUnavailable ==
    [][\A i \in DOMAIN menuItems :
          /\ (/\ req'.route = "updateStock" /\ req'.id = i
              /\ menuItems[i].trackStock
              /\ menuItems[i].currentStock = 0
              /\ menuItems'[i].currentStock > 0) =>
                 (~menuItems'[i].isOutOfStock /\ ~menuItems'[i].isAvailable)
          /\ (~menuItems[i].isAvailable /\ menuItems'[i].isAvailable) =>
                 (req'.route = "toggle" /\ req'.id = i)]_vars

(* a sold-out, unavailable item has just been restocked and is still
   unavailable *)
C19_Witness ==
    /\ TrackedItemSaved
    /\ req.route = "updateStock"
    /\ req.before[1].currentStock = 0 /\ ~req.before[1].isAvailable
    /\ menuItems[req.id].currentStock > 0
    /\ ~menuItems[req.id].isOutOfStock
    /\ ~menuItems[req.id].isAvailable

(* C20: after a successful toggle-availability request the stored
   isAvailable is the negation of the value stored before it. *)
C20_ToggleNegates ==
    (req.route = "toggle" /\ res = 200) =>
        menuItems[req.id].isAvailable = ~req.before[1].isAvailable

(* C20, as the code has it: a successful toggle-availability request stores
   the negation of the previous isAvailable, except for a stock-tracked item
   whose currentStock is 0, which the save hook keeps unavailable. *)
C20_ToggleNegatesUnlessSoldOut ==
    (req.route = "toggle" /\ res = 200) =>
        IF req.before[1].trackStock /\ req.before[1].currentStock = 0
        THEN ~menuItems[req.id].isAvailable
        ELSE menuItems[req.id].isAvailable = ~req.before[1].isAvailable

(* a sold-out item was toggled and is still unavailable *)
C20_Witness ==
    /\ req.route = "toggle" /\ res = 200
    /\ req.before[1].trackStock /\ req.before[1].currentStock = 0
    /\ ~req.before[1].isAvailable
    /\ ~menuItems[req.id].isAvailable

----------------------------------------------------------------------------
(* Authentication: authMiddleware in front of the mutating routes.  A
   request carries a bearer token of one of the kinds jwt.verify tells
   apart; the handlers above are the requests whose token is valid. *)

Tokens == {"none", "malformed", "expired", "notBefore", "valid"}

(* the mutating routes registered with authMiddleware *)
ProtectedRoutes ==
    {"create-customer", "update-customer", "password-customer",
     "delete-customer", "create-order", "status", "assign-driver",
     "delete-order", "create-driver", "update-driver", "password-driver",
     "delete-driver", "create-menu", "toggle", "update", "delete-menu",
     "create-restaurant", "update-restaurant", "toggle-status",
     "delete-restaurant"}

(* the mutating routes registered without any middleware *)
OpenRoutes == {"activate-all"}

AuthRequest(route, id, token) == [route |-> route, id |-> id, token |-> token]

(* authMiddleware answering instead of calling next(): no header or no
   Bearer prefix, JsonWebTokenError and TokenExpiredError give 401, any
   other error of jwt.verify falls to the final 500 *)
AuthMiddleware(route, token) ==
    /\ route \in ProtectedRoutes
    /\ token # "valid"
    /\ req' = AuthRequest(route, 0, token)
    /\ res' = IF token \in {"none", "malformed", "expired"} THEN 401 ELSE 500
    /\ UNCHANGED <<variant, users, contacts, orders, deliveries, now,
                   restaurants, menuItems, inflight>>

(* PATCH /api/restaurants/:id/toggle-status, behind authMiddleware *)
ToggleStatus(id) ==
    /\ UNCHANGED <<variant, users, contacts, orders, deliveries, now,
                   menuItems, inflight>>
    /\ req' = AuthRequest("toggle-status", id, "valid")
    /\ IF id \notin DOMAIN restaurants
       THEN res' = 404 /\ UNCHANGED restaurants
       ELSE /\ restaurants' = [restaurants EXCEPT ![id].isActive = ~@]
            /\ res' = 200

(* PATCH /api/restaurants/activate-all of the optionalAuth module: the
   handler is the only argument of router.patch, whatever the token *)
ActivateAll(token) ==
    /\ variant = "optionalAuth"
    /\ UNCHANGED <<variant, users, contacts, orders, deliveries, now,
                   menuItems, inflight>>
    /\ req' = AuthRequest("activate-all", 0, token)
    /\ restaurants' = [r \in DOMAIN restaurants |->
                         [restaurants[r] EXCEPT !.isActive = TRUE]]
    /\ res' = 200

InitAuth ==
    /\ variant \in {"restaurants", "optionalAuth"}
    /\ users = (1 :> "customer") @@ (2 :> "driver") @@ (3 :> "driver")
    /\ contacts = SeedContacts
    /\ \E stored \in SUBSET SeedOrderIds :
         orders \in [stored -> {[NewOrder EXCEPT !.status = st,
                                                 !.deliveryStatus = st] :
                                   st \in SeedOrderStatuses}]
    /\ deliveries = <<>>
    /\ now = 0
    /\ req = AuthRequest("none", 0, "none")
    /\ res = 0
    /\ \E stored \in SUBSET RestaurantIds :
         restaurants \in [stored -> {[vendor |-> Null, isActive |-> a] :
                                        a \in BOOLEAN}]
    /\ menuItems = <<>>
    /\ inflight = {}

NextAuth ==
    \/ \E route \in ProtectedRoutes, token \in Tokens :
          AuthMiddleware(route, token)
    \/ \E id \in RestaurantIds : ToggleStatus(id)
    \/ \E token \in Tokens : ActivateAll(token)
    \/ \E id \in UserIds : DeleteCustomer(id)
    \/ \E id \in UserIds : DeleteDriver(id)
    \/ \E id \in RestaurantIds : DeleteRestaurant(id)

SpecAuth == InitAuth /\ [][NextAuth]_vars

(* C21: every mutating route, called without a valid bearer token, answers
   401 and writes nothing to the store. *)
C21_UnauthenticatedRejected ==
    [][(/\ req'.route \in ProtectedRoutes \cup OpenRoutes
        /\ "token" \in DOMAIN req'
        /\ req'.token \in {"none", "malformed", "expired"}) =>
          /\ res' = 401
          /\ UNCHANGED <<users, contacts, orders, deliveries, restaurants,
                         menuItems>>]_vars

----------------------------------------------------------------------------
(* Dashboard statistics: calculatePercentageChange over document counts.
   A JavaScript number is a fraction num/den in lowest terms with den > 0;
   the rounding of binary floating point is outside the model. *)

MaxCount == 15         \* largest document count in the model

RECURSIVE Gcd(_, _)
Gcd(a, b) == IF b = 0 THEN a ELSE Gcd(b, a % b)

Abs(n) == IF n < 0 THEN -n ELSE n

(* the number n / d, d # 0 *)
Number(n, d) ==
    LET g == Gcd(Abs(n), Abs(d))
        sign == IF d < 0 THEN -1 ELSE 1
    IN  [num |-> sign * (n \div g), den |-> sign * (d \div g)]

(* x / y and x * y of JavaScript numbers *)
Divide(x, y) == Number(x.num * y.den, x.den * y.num)
Times(x, y) == Number(x.num * y.num, x.den * y.den)

(* faulty variant: growth from zero counts as no change *)
calculatePercentageChange_ZeroBase(current, previous) ==
    IF previous = 0
    THEN Number(0, 1)
    ELSE Times(Divide(Number(current - previous, 1), Number(previous, 1)),
               Number(100, 1))

(* calculatePercentageChange of routes/dashboard.js *)
calculatePercentageChange(current, previous) ==
    IF previous = 0
    THEN IF current > 0 THEN Number(100, 1) ELSE Number(0, 1)
    ELSE Times(Divide(Number(current - previous, 1), Number(previous, 1)),
               Number(100, 1))

PercentRequest(current, previous) ==
    [route |-> "stats", current |-> current, previous |-> previous]

(* the counts of this week and of last week are read *)
InitPercent ==
    /\ variant = "history"
    /\ users = <<>>
    /\ contacts = <<>>
    /\ orders = <<>>
    /\ deliveries = <<>>
    /\ now = 0
    /\ \E current \in 0 .. MaxCount, previous \in 0 .. MaxCount :
         req = PercentRequest(current, previous)
    /\ res = Null
    /\ restaurants = <<>>
    /\ menuItems = <<>>
    /\ inflight = {}

(* GET /api/dashboard/stats computes the change of one pair of counts *)
ComputeChange ==
    /\ res = Null
    /\ res' = Some(calculatePercentageChange(req.current, req.previous))
    /\ UNCHANGED <<variant, users, contacts, orders, deliveries, now, req,
                   restaurants, menuItems, inflight>>

NextPercent == ComputeChange

SpecPercent == InitPercent /\ [][NextPercent]_vars

(* C22: over non-negative counts the result is 0 when previous = 0 and
   current = 0, 100 when previous = 0 and current > 0, and otherwise
   (current - previous) / previous * 100; 10 -> 15 gives 50, 10 -> 5 gives
   -50. *)
C22_PercentageChange ==
    res # Null =>
        LET c == req.current
            p == req.previous
            r == res[1]
        IN  /\ r.den > 0
            /\ (p = 0 /\ c = 0) => (r.num = 0 /\ r.den = 1)
            /\ (p = 0 /\ c > 0) => (r.num = 100 /\ r.den = 1)
            /\ p # 0 => r.num * p = 100 * (c - p) * r.den
            /\ (p = 10 /\ c = 15) => (r.num = 50 /\ r.den = 1)
            /\ (p = 10 /\ c = 5) => (r.num = -50 /\ r.den = 1)

(* the change from 3 to 4 has been computed: a third more, 100/3 percent *)
C22_Witness ==
    /\ req.previous = 3 /\ req.current = 4
    /\ res = Some([num |-> 100, den |-> 3])

----------------------------------------------------------------------------
(* Order creation, POST /api/orders of the status-history variant's module,
   followed by the status and assign-driver routes on the created order.
   An item is its price and quantity; amounts are whole currency units. *)

ItemInputs == {<<>>, <<[price |-> 2, quantity |-> 2], [price |-> 1, quantity |-> 1]>>}
AmountInputs == {Null, Some(5), Some(7)}

RECURSIVE ItemSum(_)
ItemSum(items) ==
    IF items = <<>> THEN 0
    ELSE items[1].price * items[1].quantity + ItemSum(Tail(items))

(* faulty variant: the server recomputes the total from the items *)
StoredTotal_Recomputed(totalAmount, items) == ItemSum(items)

(* totalAmount: totalAmount || 0 *)
StoredTotal(totalAmount, items) ==
    IF totalAmount = Null \/ totalAmount = Some(0) THEN 0 ELSE totalAmount[1]

OrderRequest(route, id, user, items, totalAmount) ==
    [route |-> route, id |-> id, status |-> NoStatus, driverId |-> Null,
     fail |-> "none", user |-> user, items |-> items,
     totalAmount |-> totalAmount]

(* POST /api/orders; the restaurant is the seeded one *)
CreateOrder(user, items, totalAmount) ==
    LET id == Cardinality(DOMAIN orders) + 1 IN
    /\ variant = "history"
    /\ UNCHANGED <<variant, users, deliveries, now>>
    /\ UNCHANGED others
    /\ IF user = Null \/ items = <<>>
       THEN /\ req' = OrderRequest("create-order", 0, user, items, totalAmount)
            /\ res' = 400
            /\ UNCHANGED orders
       ELSE IF user[1] \notin DOMAIN users
       THEN /\ req' = OrderRequest("create-order", 0, user, items, totalAmount)
            /\ res' = 404
            /\ UNCHANGED orders
       ELSE /\ id \in SeedOrderIds
            /\ req' = OrderRequest("create-order", id, user, items, totalAmount)
            /\ orders' = orders @@
                 (id :> [NewOrder EXCEPT
                           !.customer = user[1],
                           !.items = items,
                           !.totalAmount = StoredTotal(totalAmount, items),
                           !.updatedAt = now])
            /\ res' = 201

InitOrders ==
    /\ variant = "history"
    /\ users = (1 :> "customer") @@ (2 :> "driver") @@ (3 :> "driver")
    /\ orders = <<>>
    /\ deliveries = <<>>
    /\ now = 0
    /\ req = NoRequest
    /\ res = 0
    /\ contacts = SeedContacts
    /\ restaurants = SeedRestaurants
    /\ menuItems = <<>>
    /\ inflight = {}

NextOrders ==
    \/ \E user \in DriverInputs, items \in ItemInputs,
          totalAmount \in AmountInputs : CreateOrder(user, items, totalAmount)
    \/ \E id \in OrderIds, status \in HistoryStatusInputs :
          UpdateStatusHistory(id, status)
    \/ \E id \in OrderIds, driverId \in DriverInputs :
          AssignDriver(id, driverId)

SpecOrders == InitOrders /\ [][NextOrders]_vars

(* C23: an order created from a non-empty item list and an existing user
   stores the supplied totalAmount as sent, whatever the items add up to,
   and has status pending. *)
C23_TotalStoredVerbatim ==
    [][(req'.route = "create-order" /\ req'.items # <<>>
        /\ req'.user # Null /\ req'.user[1] \in DOMAIN users) =>
          /\ res' = 201
          /\ req'.id \notin DOMAIN orders
          /\ req'.id \in DOMAIN orders'
          /\ orders'[req'.id].status = "pending"
          /\ req'.totalAmount # Null =>
                orders'[req'.id].totalAmount = req'.totalAmount[1]]_vars

(* an order was created whose total of 7 is not the 5 its items cost *)
C23_Witness ==
    /\ req.route = "create-order" /\ res = 201
    /\ orders[req.id].totalAmount = 7
    /\ ItemSum(orders[req.id].items) = 5
    /\ orders[req.id].status = "pending"

(* the last entry of a non-empty statusHistory *)
LastEntry(o) == orders[o].statusHistory[Len(orders[o].statusHistory)]

(* C24: in the status-history variant, whenever an order's statusHistory is
   non-empty the status of its last entry is the order's current status. *)
C24_LastEntryIsStatus ==
    \A o \in DOMAIN orders :
        orders[o].statusHistory # <<>> => LastEntry(o).status = orders[o].status

(* C24, as the code has it: the last entry of a non-empty statusHistory is
   the order's current status unless a driver was assigned since: then the
   status is assigned and the history still ends with the status before. *)
C24_LastEntryUnlessAssigned ==
    \A o \in DOMAIN orders :
        orders[o].statusHistory # <<>> =>
            \/ LastEntry(o).status = orders[o].status
            \/ orders[o].status = "assigned" /\ orders[o].driver # Null

(* a delivered order got a driver: its status is assigned, its history ends
   with delivered *)
C24_Witness ==
    \E o \in DOMAIN orders :
        /\ req.route = "assign-driver" /\ res = 200 /\ req.id = o
        /\ orders[o].statusHistory # <<>>
        /\ LastEntry(o).status = "delivered"
        /\ orders[o].status = "assigned"

----------------------------------------------------------------------------
(* Further properties of the Delivery-sync status route (specification Spec) *)

(* the last request was a successful status update of an order that has a
   Delivery, in the Delivery-sync variant *)
SyncedUpdate ==
    /\ variant = "sync"
    /\ req.route = "status" /\ res = 200
    /\ req.id \in DOMAIN deliveries

(* C25: after a successful status update of an order with a Delivery, a
   terminal order status (delivered, cancelled) means a terminal Delivery
   status (completed, cancelled), so that the Delivery does not block the
   deletion of its driver. *)
C25_TerminalOrderTerminalDelivery ==
    (SyncedUpdate /\ orders[req.id].status \in {"delivered", "cancelled"}) =>
        /\ deliveries[req.id].status \in {"completed", "cancelled"}
        /\ deliveries[req.id].status \notin DriverActiveDeliveryStatuses

(* C25, as the code has it: a delivered order completes its Delivery, but a
   cancelled order puts its Delivery back to assigned, one of the statuses
   that block the deletion of the driver. *)
C25_CancelledOrderAssignedDelivery ==
    SyncedUpdate =>
        /\ orders[req.id].status = "delivered" =>
              deliveries[req.id].status = "completed"
        /\ orders[req.id].status = "cancelled" =>
              /\ deliveries[req.id].status = "assigned"
              /\ deliveries[req.id].status \in DriverActiveDeliveryStatuses

(* an order whose delivery had started was cancelled: the Delivery is
   assigned again *)
C25_Witness ==
    /\ SyncedUpdate
    /\ req.status = "cancelled"
    /\ orders[req.id].status = "cancelled"
    /\ deliveries[req.id].startTime # Null
    /\ deliveries[req.id].status = "assigned"

(* C26: a Delivery that starts with both timestamps unset and is driven by
   status updates at non-decreasing clock times has, whenever both are set,
   endTime >= startTime and an actualDuration that is not negative. *)
C26_DurationNotNegative ==
    \A o \in DOMAIN deliveries :
        (deliveries[o].startTime # Null /\ deliveries[o].endTime # Null) =>
            /\ deliveries[o].endTime[1] >= deliveries[o].startTime[1]
            /\ deliveries[o].actualDuration # Null =>
                  deliveries[o].actualDuration[1] >= 0

----------------------------------------------------------------------------
(* Two concurrent status updates of the same order in the Delivery-sync
   variant, interleaved at their storage calls: Order.findByIdAndUpdate,
   Delivery.findOne and delivery.save().  inflight maps each request to its
   position, its status, the Delivery document it loaded and its response. *)

RaceProcs == {1, 2}
RaceOrder == 1
RaceStatuses == {"pending", "picked_up", "delivered", "cancelled"}

Handler(pc, status, doc, code) ==
    [pc |-> pc, status |-> status, doc |-> doc, code |-> code]

(* the paths of a loaded document that the handler changed *)
ModifiedPaths(loaded, local) == {f \in DOMAIN local : local[f] # loaded[f]}

(* faulty variant: save writes nothing *)
SaveDocument_Skip(stored, loaded, local) == stored

(* document.save(): $set of the modified paths on the stored document *)
SaveDocument(stored, loaded, local) ==
    [f \in DOMAIN stored |->
        IF f \in ModifiedPaths(loaded, local) THEN local[f] ELSE stored[f]]

(* await Order.findByIdAndUpdate(id, { status, updatedAt }) *)
RaceWriteOrder(p) ==
    /\ inflight[p].pc = "writeOrder"
    /\ orders' = [orders EXCEPT ![RaceOrder] =
         [@ EXCEPT !.status = inflight[p].status, !.updatedAt = now]]
    /\ inflight' = [inflight EXCEPT ![p].pc = "findDelivery"]
    /\ UNCHANGED <<variant, users, contacts, deliveries, now, req, res,
                   restaurants, menuItems>>

(* await Delivery.findOne({ order }) *)
RaceFindDelivery(p) ==
    /\ inflight[p].pc = "findDelivery"
    /\ inflight' = [inflight EXCEPT ![p].pc = "saveDelivery",
                                    ![p].doc = Some(deliveries[RaceOrder])]
    /\ UNCHANGED <<variant, users, contacts, orders, deliveries, now, req,
                   res, restaurants, menuItems>>

(* the assignments to the loaded Delivery, await delivery.save(), and the
   response *)
RaceSaveDelivery(p) ==
    /\ inflight[p].pc = "saveDelivery"
    /\ deliveries' = [deliveries EXCEPT ![RaceOrder] =
         SaveDocument(@, inflight[p].doc[1],
            DeliveryPreSave(SyncDelivery(inflight[p].doc[1],
                                         inflight[p].status)))]
    /\ inflight' = [inflight EXCEPT ![p].pc = "done", ![p].code = 200]
    /\ req' = Request("status", RaceOrder, inflight[p].status, Null, "none")
    /\ res' = 200
    /\ UNCHANGED <<variant, users, contacts, orders, now, restaurants,
                   menuItems>>

InitRaceSync ==
    /\ variant = "sync"
    /\ users = (1 :> "customer") @@ (2 :> "driver") @@ (3 :> "driver")
    /\ contacts = SeedContacts
    /\ orders = (RaceOrder :> NewOrder)
    /\ \E st \in DeliveryStatusEnum :
         deliveries = (RaceOrder :> [NewDelivery EXCEPT !.status = st])
    /\ now = 0
    /\ req = NoRequest
    /\ res = 0
    /\ restaurants = SeedRestaurants
    /\ menuItems = <<>>
    /\ inflight \in [RaceProcs ->
                       {Handler("writeOrder", st, Null, 0) : st \in RaceStatuses}]

NextRaceSync ==
    \/ \E p \in RaceProcs : RaceWriteOrder(p)
    \/ \E p \in RaceProcs : RaceFindDelivery(p)
    \/ \E p \in RaceProcs : RaceSaveDelivery(p)

SpecRaceSync == InitRaceSync /\ [][NextRaceSync]_vars

(* both requests have answered 200 *)
RaceDone == \A p \in RaceProcs : inflight[p].pc = "done" /\ inflight[p].code = 200

(* C27: once two concurrent status updates of the same order have both
   completed successfully, the Delivery's status is the mapping applied to
   the order's final stored status. *)
C27_DeliveryFollowsFinalStatus ==
    RaceDone =>
        deliveries[RaceOrder].status = DeliveryStatusFor(orders[RaceOrder].status)

(* C27, as the code has it: once both have completed, the order's status is
   the status of one of the two requests and the Delivery's status is the
   mapping applied to the status of one of them, not necessarily of the
   same one. *)
C27_DeliveryFollowsSomeRequest ==
    RaceDone =>
        /\ \E p \in RaceProcs : orders[RaceOrder].status = inflight[p].status
        /\ \E p \in RaceProcs :
              deliveries[RaceOrder].status =
                 DeliveryStatusFor(inflight[p].status)

(* both completed: the order ended delivered, its Delivery ongoing *)
C27_Witness ==
    /\ RaceDone
    /\ orders[RaceOrder].status = "delivered"
    /\ deliveries[RaceOrder].status = "ongoing"

----------------------------------------------------------------------------
(* Concurrent status updates of the same order in the status-history
   variant.  The handler makes one storage call, Order.findByIdAndUpdate
   with $set and $push, which the store applies atomically; inflight[p].doc
   is the order as it was stored when the requests arrived. *)

RaceHistoryStatuses == {"pending", "assigned", "delivered", "cancelled", "shipped"}

(* faulty variant: the handler saves the history it read when it arrived *)
UpdateWithPush_Stale(stored, seen, status) ==
    [stored EXCEPT !.status = status,
                   !.deliveryStatus = status,
                   !.updatedAt = now,
                   !.statusHistory = PushStatusHistory(seen.statusHistory, status)]

(* { status, deliveryStatus, updatedAt, $push: { statusHistory } } applied
   to the stored document *)
UpdateWithPush(stored, seen, status) ==
    [stored EXCEPT !.status = status,
                   !.deliveryStatus = status,
                   !.updatedAt = now,
                   !.statusHistory = PushStatusHistory(@, status)]

(* PUT /api/orders/:id/status, status-history variant, of request p *)
RaceUpdateHistory(p) ==
    /\ inflight[p].pc = "update"
    /\ req' = Request("status", RaceOrder, inflight[p].status, Null, "none")
    /\ UNCHANGED <<variant, users, contacts, deliveries, now, restaurants,
                   menuItems>>
    /\ IF inflight[p].status \notin validStatusesHistory
       THEN /\ res' = 400
            /\ inflight' = [inflight EXCEPT ![p].pc = "done", ![p].code = 400]
            /\ UNCHANGED orders
       ELSE /\ orders' = [orders EXCEPT ![RaceOrder] =
                 UpdateWithPush(@, inflight[p].doc[1], inflight[p].status)]
            /\ res' = 200
            /\ inflight' = [inflight EXCEPT ![p].pc = "done", ![p].code = 200]

InitRaceHistory ==
    /\ variant = "history"
    /\ users = (1 :> "customer") @@ (2 :> "driver") @@ (3 :> "driver")
    /\ contacts = SeedContacts
    /\ \E h \in {<<>>, <<[status |-> "confirmed", timestamp |-> 0]>>} :
         orders = (RaceOrder :>
            [NewOrder EXCEPT !.statusHistory = h,
                             !.status = IF h = <<>> THEN "pending"
                                        ELSE "confirmed",
                             !.deliveryStatus = IF h = <<>> THEN "pending"
                                                ELSE "confirmed"])
    /\ deliveries = <<>>
    /\ now = 0
    /\ req = NoRequest
    /\ res = 0
    /\ restaurants = SeedRestaurants
    /\ menuItems = <<>>
    /\ inflight \in [RaceProcs ->
          {Handler("update", st, Some(orders[RaceOrder]), 0) :
              st \in RaceHistoryStatuses}]

NextRaceHistory == \E p \in RaceProcs : RaceUpdateHistory(p)

SpecRaceHistory == InitRaceHistory /\ [][NextRaceHistory]_vars

(* the requests that have answered 200 *)
Succeeded == {p \in RaceProcs : inflight[p].pc = "done" /\ inflight[p].code = 200}

(* C28: concurrent status updates of one order in the status-history
   variant lose nothing: statusHistory has grown by exactly one entry per
   successful request, the entries appended are the requests' statuses, and
   the order's status is that of the last entry appended. *)
C28_NoLostHistoryEntry ==
    LET h == orders[RaceOrder].statusHistory
        h0 == inflight[1].doc[1].statusHistory
    IN  /\ Len(h) = Len(h0) + Cardinality(Succeeded)
        /\ SubSeq(h, 1, Len(h0)) = h0
        /\ \A p \in Succeeded :
              \E k \in Len(h0) + 1 .. Len(h) : h[k].status = inflight[p].status
        /\ Succeeded # {} => orders[RaceOrder].status = h[Len(h)].status

(* two requests with different statuses have both completed *)
C28_Witness ==
    /\ Succeeded = RaceProcs
    /\ inflight[1].status # inflight[2].status
    /\ Len(orders[RaceOrder].statusHistory) = 3
    /\ orders[RaceOrder].status = "cancelled"

----------------------------------------------------------------------------
(* assign-driver interleaved with the deletion of drivers.  The handler
   awaits User.findById and then Order.findByIdAndUpdate; another request
   can be served between the two. *)

DriverIdInputs == {Null} \cup {Some(u) : u \in UserIds}

(* the locals of an assign-driver handler: driverId of the body and the
   `driver` document that User.findById returned (its userType) *)
AssignHandler(pc, driverId, driver, code) ==
    [pc |-> pc, driverId |-> driverId, driver |-> driver, code |-> code]

(* faulty variant: any account passes the userType check *)
DriverDocumentOk_Any(userType) == TRUE

(* `driver.userType !== 'driver'` on the loaded document *)
DriverDocumentOk(userType) == userType = "driver"

(* validation of driverId and `await User.findById(driverId)` with the
   checks on its result *)
AssignLookup(p) ==
    LET h == inflight[p] IN
    /\ h.pc = "lookup"
    /\ req' = Request("assign-driver", RaceOrder, NoStatus, h.driverId, "none")
    /\ UNCHANGED <<variant, users, contacts, orders, deliveries, now,
                   restaurants, menuItems>>
    /\ IF h.driverId = Null
       THEN /\ res' = 400
            /\ inflight' = [inflight EXCEPT ![p].pc = "done", ![p].code = 400]
       ELSE IF h.driverId[1] \notin DOMAIN users
       THEN /\ res' = 404
            /\ inflight' = [inflight EXCEPT ![p].pc = "done", ![p].code = 404]
       ELSE IF ~DriverDocumentOk(users[h.driverId[1]])
       THEN /\ res' = 400
            /\ inflight' = [inflight EXCEPT ![p].pc = "done", ![p].code = 400,
                                 ![p].driver = Some(users[h.driverId[1]])]
       ELSE /\ res' = res
            /\ inflight' = [inflight EXCEPT ![p].pc = "write",
                                 ![p].driver = Some(users[h.driverId[1]])]

(* `await Order.findByIdAndUpdate(req.params.id, {$set: {driver, status,
   deliveryStatus, updatedAt}})` and the response *)
AssignWrite(p) ==
    LET h == inflight[p] IN
    /\ h.pc = "write"
    /\ req' = Request("assign-driver", RaceOrder, NoStatus, h.driverId, "none")
    /\ UNCHANGED <<variant, users, contacts, deliveries, now, restaurants,
                   menuItems>>
    /\ IF ~OrderFound(RaceOrder)
       THEN /\ res' = 404
            /\ inflight' = [inflight EXCEPT ![p].pc = "done", ![p].code = 404]
            /\ UNCHANGED orders
       ELSE /\ orders' = [orders EXCEPT ![RaceOrder].driver = h.driverId,
                                         ![RaceOrder].status = "assigned",
                                         ![RaceOrder].deliveryStatus = "assigned",
                                         ![RaceOrder].updatedAt = now]
            /\ res' = 200
            /\ inflight' = [inflight EXCEPT ![p].pc = "done", ![p].code = 200]

InitRaceAssign ==
    /\ variant = "history"
    /\ users = (1 :> "customer") @@ (2 :> "driver") @@ (3 :> "driver")
    /\ contacts = SeedContacts
    /\ orders = (RaceOrder :> NewOrder)
    /\ deliveries = <<>>
    /\ now = 0
    /\ req = NoRequest
    /\ res = 0
    /\ restaurants = SeedRestaurants
    /\ menuItems = <<>>
    /\ inflight \in [RaceProcs ->
          {AssignHandler("lookup", d, Null, 0) : d \in DriverIdInputs}]

NextRaceAssign ==
    \/ \E p \in RaceProcs : AssignLookup(p)
    \/ \E p \in RaceProcs : AssignWrite(p)
    \/ \E id \in UserIds : DeleteDriver(id)

SpecRaceAssign == InitRaceAssign /\ [][NextRaceAssign]_vars

(* request p's Order write takes effect in this step and answers 200 *)
AssignTakesEffect(p) ==
    /\ inflight[p].pc = "write"
    /\ inflight'[p].pc = "done"
    /\ inflight'[p].code = 200

(* C29 as stated: at the moment a successful assign-driver's Order write
   takes effect, the driver it stores resolves to a stored Account with role
   driver, whatever was interleaved since the lookup. *)
C29_AssignedDriverResolves ==
    [][\A p \in RaceProcs :
          AssignTakesEffect(p) =>
             /\ orders'[RaceOrder].driver # Null
             /\ orders'[RaceOrder].driver[1] \in DOMAIN users'
             /\ users'[orders'[RaceOrder].driver[1]] = "driver"]_vars

(* C29 amended: the driver a successful assign-driver stores is the
   requested one, and it resolved to a stored Account with role driver when
   the handler looked it up; it may have been deleted since. *)
C29_AssignedDriverResolvedAtLookup ==
    [][\A p \in RaceProcs :
          AssignTakesEffect(p) =>
             /\ orders'[RaceOrder].driver = inflight[p].driverId
             /\ inflight[p].driverId # Null
             /\ inflight[p].driver = Some("driver")
             /\ orders'[RaceOrder].status = "assigned"]_vars

(* an assign-driver has succeeded and the Order references a driver that
   was deleted between the lookup and the write *)
C29_Witness ==
    /\ \E p \in RaceProcs : inflight[p].pc = "done" /\ inflight[p].code = 200
    /\ req.route = "assign-driver"
    /\ res = 200
    /\ orders[RaceOrder].driver = Some(2)
    /\ 2 \notin DOMAIN users

----------------------------------------------------------------------------
(* Passwords of customer and driver accounts.  A password value is a text
   together with the salts of the bcrypt hashes applied to it, innermost
   first: no salts is the plain text, one salt is bcrypt.hash(text), two
   salts is the hash of the hash string.  In this specification the records
   of contacts carry the stored password. *)

Salts == {1, 2}

Secret == <<"s", "e", "c", "r", "e", "t">>
Hunter == <<"h", "u", "n", "t", "e", "r">>
Short == <<"a", "b", "c">>

Plain(text) == [text |-> text, salts |-> <<>>]

PasswordInputs == {Null, Some(Plain(Short)), Some(Plain(Secret)), Some(Plain(Hunter))}

CurrentPasswordInputs == {Null, Some(Plain(Secret)), Some(Plain(Hunter))}

(* bcrypt.hash(data, salt) *)
bcryptHash(data, salt) == [data EXCEPT !.salts = Append(@, salt)]

(* bcrypt.compare(data, hash): hashes data with the salt of hash and
   compares the result with hash *)
bcryptCompare(data, hash) ==
    /\ Len(hash.salts) > 0
    /\ bcryptHash(data, hash.salts[Len(hash.salts)]) = hash

(* userSchema.pre('save'): a modified password is hashed *)
UserPreSave(password, modified, salt) ==
    IF modified THEN bcryptHash(password, salt) ELSE password

(* the e-mail addresses and phone numbers of the creation requests: one on
   file, one new *)
NewAccountContacts ==
    {[email |-> <<"a">>, phone |-> "p1"], [email |-> <<"d">>, phone |-> "p4"]}

PasswordRequest(route, role, id, password, currentPassword, before) ==
    [route |-> route, role |-> role, id |-> id, password |-> password,
     currentPassword |-> currentPassword, before |-> before]

(* POST /api/customers and POST /api/drivers: the route hashes the
   password, new User({... password: hashedPassword}).save() runs the hook *)
CreateWithPassword(role, c, password) ==
    /\ UNCHANGED <<variant, orders, deliveries, now, restaurants, menuItems,
                   inflight>>
    /\ req' = PasswordRequest("create", role, NextUserId, password, Null, Null)
    /\ IF password = Null
       THEN res' = 400 /\ UNCHANGED <<users, contacts>>
       ELSE IF Len(password[1].text) < 6
       THEN res' = 400 /\ UNCHANGED <<users, contacts>>
       ELSE IF \E u \in DOMAIN contacts :
                  \/ contacts[u].email = ToLowerCase(c.email)
                  \/ contacts[u].phone = c.phone
       THEN res' = 400 /\ UNCHANGED <<users, contacts>>
       ELSE \E salt \in Salts, hookSalt \in Salts :
              LET hashedPassword == bcryptHash(password[1], salt) IN
              /\ users' = users @@ (NextUserId :> role)
              /\ contacts' = contacts @@
                   (NextUserId :>
                      [email |-> ToLowerCase(c.email), phone |-> c.phone,
                       password |-> UserPreSave(hashedPassword, TRUE, hookSalt)])
              /\ res' = 201

(* PUT /api/customers/:id/password and PUT /api/drivers/:id/password *)
UpdatePassword(role, id, newPassword, currentPassword) ==
    /\ UNCHANGED <<variant, users, orders, deliveries, now, restaurants,
                   menuItems, inflight>>
    /\ IF newPassword = Null
       THEN /\ res' = 400 /\ UNCHANGED contacts
            /\ req' = PasswordRequest("password", role, id, newPassword,
                                       currentPassword, Null)
       ELSE IF Len(newPassword[1].text) < 6
       THEN /\ res' = 400 /\ UNCHANGED contacts
            /\ req' = PasswordRequest("password", role, id, newPassword,
                                       currentPassword, Null)
       ELSE IF id \notin DOMAIN users \/ users[id] # role
       THEN /\ res' = 404 /\ UNCHANGED contacts
            /\ req' = PasswordRequest("password", role, id, newPassword,
                                       currentPassword, Null)
       ELSE /\ req' = PasswordRequest("password", role, id, newPassword,
                                       currentPassword,
                                       Some(contacts[id].password))
            /\ IF /\ currentPassword # Null
                  /\ ~bcryptCompare(currentPassword[1], contacts[id].password)
               THEN res' = 400 /\ UNCHANGED contacts
               ELSE \E salt \in Salts, hookSalt \in Salts :
                      LET hashed == bcryptHash(newPassword[1], salt) IN
                      /\ contacts' = [contacts EXCEPT ![id].password =
                            UserPreSave(hashed, hashed # contacts[id].password,
                                        hookSalt)]
                      /\ res' = 200

(* a customer and a driver created through POST with password "secret" *)
InitPassword ==
    /\ variant = "history"
    /\ users = (1 :> "customer") @@ (2 :> "driver")
    /\ \E stored \in
           [{1, 2} -> {UserPreSave(bcryptHash(Plain(Secret), s), TRUE, h) :
                          s \in Salts, h \in Salts}] :
         contacts = [u \in {1, 2} |->
                       [email |-> SeedContacts[u].email,
                        phone |-> SeedContacts[u].phone,
                        password |-> stored[u]]]
    /\ orders = <<>>
    /\ deliveries = <<>>
    /\ now = 0
    /\ req = PasswordRequest("none", "customer", 0, Null, Null, Null)
    /\ res = 0
    /\ restaurants = SeedRestaurants
    /\ menuItems = <<>>
    /\ inflight = <<>>

NextPassword ==
    \/ \E role \in {"customer", "driver"}, c \in NewAccountContacts,
          password \in PasswordInputs : CreateWithPassword(role, c, password)
    \/ \E role \in {"customer", "driver"}, id \in 1 .. 3,
          newPassword \in PasswordInputs,
          currentPassword \in CurrentPasswordInputs :
          UpdatePassword(role, id, newPassword, currentPassword)

SpecPassword == InitPassword /\ [][NextPassword]_vars

(* the password update that has just been served named an existing account
   of the route's role, a valid new password and a current password *)
PasswordChecked ==
    /\ req.route = "password"
    /\ req.before # Null
    /\ req.currentPassword # Null

(* C30 as stated: every stored password was set from some text p (by POST
   or by a password replacement); a password update whose currentPassword is
   p succeeds and stores the new password, and one whose currentPassword
   differs from p answers 400 and leaves the stored password unchanged. *)
C30_PasswordRoundTrip ==
    PasswordChecked =>
       IF req.currentPassword[1].text = req.before[1].text
       THEN /\ res = 200
            /\ contacts[req.id].password.text = req.password[1].text
       ELSE /\ res = 400
            /\ contacts[req.id].password = req.before[1]

====
